---- MODULE Spec2Model ----
(***************************************************************************)
(* Contact-form backend of OPSSCALE (server/server.js).                    *)
(*                                                                         *)
(* The repository holds three revisions of server/server.js:               *)
(*   "A"  src/unnamed/part_000, lines 1-173   optional DB and mail         *)
(*   "B"  src/unnamed/part_001, lines 1-210   unguarded save, soft mail    *)
(*   "C"  src/unnamed/part_001, lines 211-331 mandatory DB and mail        *)
(* The variable rev says which revision the process runs.  A process runs  *)
(* start-up (connectDB / start), then serves POST /api/contact and         *)
(* GET /health.  Text is a sequence of one-character strings; a JSON body  *)
(* is a function from the keys that are present to their text.             *)
(***************************************************************************)
EXTENDS Naturals, Sequences, FiniteSets, TLC

VARIABLES
    rev,           \* revision of server.js that runs
    mongoUri,      \* process.env.MONGO_URI is set
    smtpPass,      \* process.env.SENDGRID_SMTP_PASS is set
    transporter,   \* transporter is not null
    dbReady,       \* let dbReady
    Contact,       \* Contact (the model) is not null
    startPc,       \* position of the start-up code
    connectResult, \* how the start-up connection attempt ended
    connected,     \* mongoose.connection.readyState === 1
    records,       \* number of documents in the contacts collection
    req,           \* the contact request being handled
    health,        \* last body sent by GET /health
    probe,         \* e-mail text under validation (SpecEmail)
    verdicts       \* validation verdicts obtained for probe, in order

vars == <<rev, mongoUri, smtpPass, transporter, dbReady, Contact, startPc,
          connectResult, connected, records, req, health, probe, verdicts>>

envVars == <<rev, mongoUri, smtpPass, transporter>>
dbVars == <<dbReady, Contact, startPc, connectResult, connected>>
pureVars == <<probe, verdicts>>

-----------------------------------------------------------------------------
(* Bounds *)

MaxFieldLen == 1      \* longest name / message / company text submitted
MaxEmailLen == 6      \* longest e-mail text validated in SpecEmail
MaxInvocations == 2   \* validations of one e-mail text in SpecEmail
MaxRecords == 2       \* documents the collection may come to hold

-----------------------------------------------------------------------------
(* Program constants *)

Null == 0             \* let id = null; document ids are 1, 2, ...
NameMax == 200
EmailMax == 320
MessageMax == 5000

Revisions == {"A", "B", "C"}

-----------------------------------------------------------------------------
(* Text *)

Chars == {"a", "@", ".", " "}

IsSpace(c) == c = " "

RECURSIVE TrimStart(_)
TrimStart(s) ==
    IF s # <<>> /\ IsSpace(Head(s)) THEN TrimStart(Tail(s)) ELSE s

RECURSIVE TrimEnd(_)
TrimEnd(s) ==
    IF s # <<>> /\ IsSpace(s[Len(s)])
    THEN TrimEnd(SubSeq(s, 1, Len(s) - 1))
    ELSE s

\* String.prototype.trim
Trim(s) == TrimEnd(TrimStart(s))

\* the character class [^\s@]
Plain(c) == ~IsSpace(c) /\ c # "@"

(* /^[^\s@]+@[^\s@]+\.[^\s@]+$/ as the automaton the pattern denotes.      *)
(* Positions: 0 start, 1 inside the first [^\s@]+, 2 after "@", 3 inside   *)
(* the second [^\s@]+, 4 after "\.", 5 inside the third [^\s@]+ (final).   *)
RegexStep(q, c) ==
    CASE q = 0 -> IF Plain(c) THEN {1} ELSE {}
      [] q = 1 -> (IF Plain(c) THEN {1} ELSE {}) \cup (IF c = "@" THEN {2} ELSE {})
      [] q = 2 -> IF Plain(c) THEN {3} ELSE {}
      [] q = 3 -> (IF Plain(c) THEN {3} ELSE {}) \cup (IF c = "." THEN {4} ELSE {})
      [] q = 4 -> IF Plain(c) THEN {5} ELSE {}
      [] q = 5 -> IF Plain(c) THEN {5} ELSE {}

RECURSIVE RegexRun(_, _)
RegexRun(Q, s) ==
    IF s = <<>> THEN Q
    ELSE RegexRun(UNION {RegexStep(q, Head(s)) : q \in Q}, Tail(s))

\* /^[^\s@]+@[^\s@]+\.[^\s@]+$/.test(s)
EmailRegexTest(s) == 5 \in RegexRun({0}, s)

-----------------------------------------------------------------------------
(* Request bodies *)

Keys == {"name", "email", "message", "company"}

RECURSIVE TextUpTo(_, _)
TextUpTo(alphabet, n) ==
    IF n = 0 THEN {<<>>}
    ELSE LET shorter == TextUpTo(alphabet, n - 1)
         IN  shorter \cup {Append(s, c) : s \in shorter, c \in alphabet}

FieldSamples == TextUpTo({"a", " "}, MaxFieldLen)

EmailSamples ==
    { <<>>, <<"a">>, <<"a", "@", "a">>, <<"@", "a", ".", "a">>,
      <<"a", "@", "a", ".", "a">>, <<" ", "a", "@", "a", ".", "a">> }

Samples(k) == IF k = "email" THEN EmailSamples ELSE FieldSamples

Payloads ==
    UNION { { b \in [D -> FieldSamples \cup EmailSamples] :
                \A k \in D : b[k] \in Samples(k) } : D \in SUBSET Keys }

\* a JS value `v` in a boolean context: undefined and '' are falsy
Truthy(body, k) == k \in DOMAIN body /\ body[k] # <<>>

\* String(v || '')
OrEmpty(body, k) == IF Truthy(body, k) THEN body[k] ELSE <<>>

\* const cleaned = { name: String(name || '').trim(), ... }
Cleaned(body) == [k \in {"name", "email", "message"} |-> Trim(OrEmpty(body, k))]

-----------------------------------------------------------------------------
(* Validation and the Contact schema *)

\* if (company) return res.status(200).json({ success: true });
\* revision B never reads company
Honeypot(body) == rev # "B" /\ Truthy(body, "company")

\* the test that guards the 400 response, negated
ValidationOk(rv, body) ==
    IF rv = "B"
    THEN Truthy(body, "name") /\ Truthy(body, "email") /\ Truthy(body, "message")
    ELSE LET cleaned == Cleaned(body)
         IN  /\ cleaned.name # <<>>
             /\ EmailRegexTest(cleaned.email)
             /\ cleaned.message # <<>>

\* contactSchema: each text field is trimmed, required, and capped in length
SchemaAccepts(body) ==
    LET doc == Cleaned(body)
    IN  /\ doc.name # <<>> /\ Len(doc.name) <= NameMax
        /\ doc.email # <<>> /\ Len(doc.email) <= EmailMax
        /\ doc.message # <<>> /\ Len(doc.message) <= MessageMax

-----------------------------------------------------------------------------
(* Responses *)

NoResponse == [status |-> 0]

HoneypotOk == [status |-> 200, success |-> TRUE]

InvalidInput ==
    [status |-> 400, success |-> FALSE,
     error |-> IF rev = "B" THEN "Missing required fields" ELSE "Invalid input."]

ServerError ==
    [status |-> 500, success |-> FALSE,
     error |-> IF rev = "B" THEN "Server error" ELSE "Server error."]

\* the res.json(...) that ends a handled submission
SuccessBody(r, mailed) ==
    CASE rev = "A" -> [status |-> 200, success |-> TRUE, saved |-> r.saved,
                       id |-> r.id, mailed |-> mailed]
      [] rev = "B" -> [status |-> 200, success |-> TRUE, saved |-> TRUE,
                       id |-> r.id, mailed |-> mailed]
      [] rev = "C" -> [status |-> 200, success |-> TRUE, id |-> r.id]

-----------------------------------------------------------------------------
(* POST /api/contact.  req.pc is the handler's position: "idle" before a   *)
(* request, "awaitSave" / "awaitMail" while it awaits Contact.create (or   *)
(* doc.save) / transporter.sendMail, "done" once the response is sent.     *)
(* req.pending is the set of external calls in flight; saveCalls and       *)
(* mailCalls count the calls this request has made.                        *)

IdleReq ==
    [pc |-> "idle", body |-> [k \in {} |-> <<>>], saved |-> FALSE, id |-> Null,
     saveCalls |-> 0, mailCalls |-> 0, pending |-> {},
     saveResult |-> "none", mailResult |-> "none", resp |-> NoResponse]

Respond(r, body) == [r EXCEPT !.pc = "done", !.resp = body]

\* await transporter.sendMail({...})
SendMail(r) ==
    [r EXCEPT !.pc = "awaitMail", !.pending = @ \cup {"mail"}, !.mailCalls = @ + 1]

\* the code that follows the persistence step
\*   A: if (transporter) {...sendMail...}; res.json({..., mailed: Boolean(transporter)})
\*   B: try { sendContactEmail(doc) } catch {}: with transporter null the call
\*      throws before sendMail and mailed stays false
\*   C: sendMail unconditionally
Notify(r) ==
    CASE rev = "A" -> IF transporter THEN SendMail(r)
                      ELSE Respond(r, SuccessBody(r, transporter))
      [] rev = "B" -> IF transporter THEN SendMail(r)
                      ELSE Respond(r, SuccessBody(r, FALSE))
      [] rev = "C" -> SendMail(r)

\* await Contact.create(cleaned)  /  await doc.save()
CreateRecord(r) ==
    [r EXCEPT !.pc = "awaitSave", !.pending = @ \cup {"save"}, !.saveCalls = @ + 1]

PersistFanOut(r) ==
    [r EXCEPT !.pc = "awaitSave", !.pending = @ \cup {"save", "mail"},
              !.saveCalls = @ + 1, !.mailCalls = @ + 1]

\* the persistence step of a validated submission
\*   A: if (dbReady && Contact) {...create...}
\*   B: new Contact({...}) throws a TypeError while Contact is null
\*   C: Contact.create unconditionally
Persist(r) ==
    CASE rev = "A" -> IF dbReady /\ Contact THEN CreateRecord(r) ELSE Notify(r)
      [] rev = "B" -> IF Contact THEN CreateRecord(r) ELSE Respond(r, ServerError)
      [] rev = "C" -> CreateRecord(r)

\* the handler up to its first await
Handle(body) ==
    LET r == [IdleReq EXCEPT !.body = body]
    IN  IF Honeypot(body) THEN Respond(r, HoneypotOk)
        ELSE IF ~ValidationOk(rev, body) THEN Respond(r, InvalidInput)
        ELSE Persist(r)

OnSaveErrorSwallowed(r) == Notify(r)

\* the outer catch, entered from a rejected create/save
OnSaveError(r) == Respond(r, ServerError)

\* the code that runs once sendMail has settled
\*   A: a rejection reaches the outer catch; else mailed: Boolean(transporter)
\*   B: a rejection is caught and logged; mailed = Boolean(info.accepted.length)
\*   C: a rejection reaches the outer catch; else res.json({ success, id })
AfterMail(r) ==
    CASE rev = "A" -> IF r.mailResult = "error" THEN Respond(r, ServerError)
                      ELSE Respond(r, SuccessBody(r, transporter))
      [] rev = "B" -> Respond(r, SuccessBody(r, r.mailResult = "accepted"))
      [] rev = "C" -> IF r.mailResult = "error" THEN Respond(r, ServerError)
                      ELSE Respond(r, SuccessBody(r, TRUE))

Receive ==
    /\ startPc = "listening"
    /\ req.pc = "idle"
    /\ records < MaxRecords
    /\ \E body \in Payloads : req' = Handle(body)
    /\ UNCHANGED <<envVars, dbVars, records, health, pureVars>>

\* the write is acknowledged: the document exists and has the next id
SaveSucceeds ==
    /\ req.pc = "awaitSave"
    /\ connected
    /\ SchemaAccepts(req.body)
    /\ records' = records + 1
    /\ req' = Notify([req EXCEPT !.pending = @ \ {"save"}, !.saveResult = "ok",
                                 !.saved = TRUE, !.id = records + 1])
    /\ UNCHANGED <<envVars, dbVars, health, pureVars>>

\* the write is rejected: validation error, backend error or buffering timeout
SaveFails ==
    /\ req.pc = "awaitSave"
    /\ req' = OnSaveError([req EXCEPT !.pending = @ \ {"save"}, !.saveResult = "error"])
    /\ UNCHANGED <<envVars, dbVars, records, health, pureVars>>

\* sendMail settles: all or no recipients accepted, or the promise rejects;
\* without SENDGRID_SMTP_PASS the relay refuses the login
MailSettles ==
    /\ req.pc = "awaitMail"
    /\ \E outcome \in {"accepted", "empty", "error"} :
         /\ ~smtpPass => outcome = "error"
         /\ req' = AfterMail([req EXCEPT !.pending = @ \ {"mail"},
                                         !.mailResult = outcome])
    /\ UNCHANGED <<envVars, dbVars, records, health, pureVars>>

\* the handler has returned; the next request finds fresh locals
Close ==
    /\ req.pc = "done"
    /\ req' = IdleReq
    /\ UNCHANGED <<envVars, dbVars, records, health, pureVars>>

-----------------------------------------------------------------------------
(* GET /health *)

HealthBody ==
    CASE rev = "A" -> [ok |-> TRUE, db |-> dbReady, mail |-> transporter]
      [] rev = "B" -> [ok |-> TRUE, db |-> connected, mail |-> smtpPass]
      [] rev = "C" -> [ok |-> TRUE]

GetHealth ==
    /\ startPc = "listening"
    /\ health' = HealthBody
    /\ UNCHANGED <<envVars, dbVars, records, req, pureVars>>

-----------------------------------------------------------------------------
(* Start-up: the IIFE around connectDB (A, B) and start (C) *)

\* connectDB returns at once without MONGO_URI; otherwise, and always in C,
\* mongoose.connect is awaited
StartConnect ==
    /\ startPc = "start"
    /\ IF rev # "C" /\ ~mongoUri
       THEN startPc' = "listening" /\ connectResult' = "skipped"
       ELSE startPc' = "connecting" /\ UNCHANGED connectResult
    /\ UNCHANGED <<envVars, dbReady, Contact, connected, records, req, health, pureVars>>

\* dbReady = true; Contact = mongoose.model(...); then app.listen
ConnectSucceeds ==
    /\ startPc = "connecting"
    /\ mongoUri
    /\ connected' = TRUE
    /\ connectResult' = "ok"
    /\ IF rev = "C" THEN UNCHANGED <<dbReady, Contact>>
       ELSE dbReady' = TRUE /\ Contact' = TRUE
    /\ startPc' = "listening"
    /\ UNCHANGED <<envVars, records, req, health, pureVars>>

\* A, B: catch logs, finally listens.  C: catch calls process.exit(1)
ConnectFails ==
    /\ startPc = "connecting"
    /\ connectResult' = "failed"
    /\ startPc' = IF rev = "C" THEN "exited" ELSE "listening"
    /\ UNCHANGED <<envVars, dbReady, Contact, connected, records, req, health, pureVars>>

\* the connection drops: readyState leaves 1
LoseConnection ==
    /\ connected
    /\ connected' = FALSE
    /\ UNCHANGED <<envVars, dbReady, Contact, startPc, connectResult, records, req,
                   health, pureVars>>

\* the driver re-establishes a connection that was once made
Reconnect ==
    /\ connectResult = "ok"
    /\ ~connected
    /\ connected' = TRUE
    /\ UNCHANGED <<envVars, dbReady, Contact, startPc, connectResult, records, req,
                   health, pureVars>>

-----------------------------------------------------------------------------
(* The server *)

\* module load: transporter is created (A, B: only with SENDGRID_SMTP_PASS),
\* dbReady = false, Contact = null (C: Contact = mongoose.model(...))
Init ==
    /\ rev \in Revisions
    /\ mongoUri \in BOOLEAN
    /\ smtpPass \in BOOLEAN
    /\ transporter = (rev = "C" \/ smtpPass)
    /\ dbReady = FALSE
    /\ Contact = (rev = "C")
    /\ startPc = "start"
    /\ connectResult = "none"
    /\ connected = FALSE
    /\ records = 0
    /\ req = IdleReq
    /\ health = NoResponse
    /\ probe = <<>>
    /\ verdicts = <<>>

Next ==
    \/ StartConnect
    \/ ConnectSucceeds
    \/ ConnectFails
    \/ LoseConnection
    \/ Reconnect
    \/ Receive
    \/ SaveSucceeds
    \/ SaveFails
    \/ MailSettles
    \/ Close
    \/ GetHealth

Spec == Init /\ [][Next]_vars

-----------------------------------------------------------------------------
(* Validation applied to every e-mail text of bounded length *)

ProbeBody == [name |-> <<"a">>, email |-> probe, message |-> <<"a">>]

ValidateProbe ==
    /\ Len(verdicts) < MaxInvocations
    /\ verdicts' = Append(verdicts, ValidationOk(rev, ProbeBody))
    /\ UNCHANGED <<envVars, dbVars, records, req, health, probe>>

InitEmail ==
    /\ rev \in Revisions
    /\ probe \in TextUpTo(Chars, MaxEmailLen)
    /\ verdicts = <<>>
    /\ mongoUri = FALSE
    /\ smtpPass = FALSE
    /\ transporter = (rev = "C")
    /\ dbReady = FALSE
    /\ Contact = (rev = "C")
    /\ startPc = "start"
    /\ connectResult = "none"
    /\ connected = FALSE
    /\ records = 0
    /\ req = IdleReq
    /\ health = NoResponse

NextEmail == ValidateProbe

SpecEmail == InitEmail /\ [][NextEmail]_vars

-----------------------------------------------------------------------------
(* Vocabulary of the properties *)

\* s reads x@y.z: exactly one "@", not first; a "." after it that is neither
\* next to the "@" nor last; no white space anywhere
HasShape(s) ==
    \E i, j \in 1..Len(s) :
        /\ 1 < i /\ i + 1 < j /\ j < Len(s)
        /\ s[i] = "@"
        /\ s[j] = "."
        /\ \A k \in (1..Len(s)) \ {i} : s[k] # "@" /\ s[k] # " "

Trimmed(body, k) == Trim(OrEmpty(body, k))

HoneypotFilled(body) == "company" \in DOMAIN body /\ body["company"] # <<>>

\* a submission the specification calls valid
ValidSubmission(body) ==
    /\ ~HoneypotFilled(body)
    /\ Trimmed(body, "name") # <<>>
    /\ HasShape(Trimmed(body, "email"))
    /\ Trimmed(body, "message") # <<>>

MailConfigured == smtpPass /\ transporter

StorageDisabled == ~mongoUri \/ connectResult # "ok"

\* a valid submission handled now would be written to the collection
StorageAvailable == connected /\ Contact /\ (rev = "A" => dbReady)

\* a valid submission handled now would lead to a sendMail call
MailAvailable == transporter

Has(r, k) == k \in DOMAIN r

Answered == req.pc = "done"

-----------------------------------------------------------------------------
(* Properties *)

\* C1: a request whose honeypot field company is non-empty is answered with
\* the success response and makes no storage write and no mail send,
\* whatever its other fields hold.
C1_HoneypotDiscarded ==
    (req.pc # "idle" /\ HoneypotFilled(req.body)) =>
        /\ req.saveCalls = 0
        /\ req.mailCalls = 0
        /\ Answered => (req.resp.status = 200 /\ req.resp.success)

\* C2: a request without honeypot value whose name, email or message is
\* missing or empty after trimming is answered 400 with success:false and
\* makes no storage write and no mail send.
C2_MissingFieldRejected ==
    ( /\ req.pc # "idle"
      /\ ~HoneypotFilled(req.body)
      /\ \E k \in {"name", "email", "message"} : Trimmed(req.body, k) = <<>> ) =>
        /\ req.saveCalls = 0
        /\ req.mailCalls = 0
        /\ Answered => (req.resp.status = 400 /\ ~req.resp.success)

\* C3: a valid submission with mail configured whose sendMail fails is still
\* answered with the success response, carrying mailed:false; never 500.
C3_MailFailureIsSoft ==
    ( /\ Answered
      /\ ValidSubmission(req.body)
      /\ MailConfigured
      /\ req.mailResult = "error" ) =>
        /\ req.resp.status = 200
        /\ req.resp.success
        /\ Has(req.resp, "mailed") /\ req.resp.mailed = FALSE

\* C4: with storage disabled (no MONGO_URI, or the connection never made) a
\* valid submission attempts no write and, unless its mail send failed, is
\* answered with the success response with saved:false and id:null.
C4_DisabledStorageDegrades ==
    (req.pc # "idle" /\ ValidSubmission(req.body) /\ StorageDisabled) =>
        /\ req.saveCalls = 0
        /\ (Answered /\ req.mailResult # "error") =>
              /\ req.resp.status = 200
              /\ req.resp.success
              /\ Has(req.resp, "saved") /\ req.resp.saved = FALSE
              /\ Has(req.resp, "id") /\ req.resp.id = Null

\* C5: once the storage write of a request has failed, the request is
\* answered 500 with success:false; no state holds a success response, a
\* saved:true or a non-null id for it.
C5_SaveFailureIsServerError ==
    req.saveResult = "error" =>
        /\ Answered
        /\ req.resp.status = 500
        /\ ~req.resp.success
        /\ ~Has(req.resp, "saved")
        /\ ~Has(req.resp, "id")

C5_Witness ==
    /\ req.saveResult = "error"
    /\ req.saveCalls = 1
    /\ connectResult = "ok"
    /\ ValidSubmission(req.body)
    /\ req.resp.status = 500

\* C6: the success response of a valid submission whose write succeeded has
\* saved:true and the id of the document just created; it has mailed:true
\* when the transport also accepted the message; and mailed:true is only
\* reported after exactly one sendMail call that did not fail.
C6_SuccessReportsOutcome ==
    (Answered /\ ValidSubmission(req.body) /\ req.resp.success) =>
        /\ req.saveResult = "ok" =>
              /\ Has(req.resp, "saved") /\ req.resp.saved = TRUE
              /\ Has(req.resp, "id") /\ req.resp.id # Null /\ req.resp.id = records
        /\ (req.saveResult = "ok" /\ req.mailResult = "accepted") =>
              (Has(req.resp, "mailed") /\ req.resp.mailed = TRUE)
        /\ (Has(req.resp, "mailed") /\ req.resp.mailed = TRUE) =>
              (req.mailCalls = 1 /\ req.mailResult \in {"accepted", "empty"})

\* C7: every GET /health answers ok:true, db equal to whether storage is
\* available at that moment and mail equal to whether mail is available.
C7_HealthReflectsAvailability ==
    [][GetHealth =>
         /\ health'.ok
         /\ Has(health', "db") /\ health'.db = StorageAvailable
         /\ Has(health', "mail") /\ health'.mail = MailAvailable]_vars

\* C8: every validation of an e-mail text accepts it exactly when the
\* trimmed text has the shape x@y.z, with the same verdict each time.
C8_EmailShapeDecides ==
    \A n \in DOMAIN verdicts : verdicts[n] = HasShape(Trim(probe))

\* C9: one request makes at most one storage write and at most one mail
\* send, never both in flight; a mail send follows only a successful write
\* or a write skipped because storage is disabled, never a failed write.
C9_SequentialAtMostOnce ==
    /\ req.saveCalls <= 1
    /\ req.mailCalls <= 1
    /\ Cardinality(req.pending) <= 1
    /\ req.mailCalls > 0 =>
          \/ req.saveResult = "ok"
          \/ req.saveCalls = 0 /\ StorageDisabled
    /\ req.saveResult = "error" => req.mailCalls = 0

C9_Witness ==
    /\ req.pc = "awaitMail"
    /\ req.pending = {"mail"}
    /\ req.saveCalls = 1
    /\ req.saveResult = "ok"
    /\ req.mailCalls = 1

\* C10: no request is handled before the start-up connection attempt has
\* ended; dbReady and Contact are set only by a successful attempt; and a
\* failed attempt leaves a listening server.
C10_ListenAfterConnect ==
    /\ startPc \in {"start", "connecting"} => req.pc = "idle"
    /\ (dbReady /\ Contact) => connectResult = "ok"
    /\ connectResult = "failed" => startPc = "listening"

====
